---------------------------- MODULE Spec2Model ----------------------------
(***************************************************************************)
(* Model of download-gists (src/index.js): a script that fetches a user's  *)
(* gists page by page, names one directory per gist, writes the metadata   *)
(* and the files of every gist under ./downloaded and optionally deletes   *)
(* the gists afterwards.                                                   *)
(*                                                                         *)
(* Strings are sequences of one-character strings.  Every await of the     *)
(* script is one external operation: the operation is issued, and the      *)
(* action that models its completion runs the continuation of main up to   *)
(* the next await (or to the end of the run).                              *)
(***************************************************************************)
EXTENDS Integers, Sequences, FiniteSets, TLC

VARIABLES
    GISTS_PER_PAGE,                     \* index.js:11 (user-editable)
    GIST_PAGE_LIMIT,                    \* index.js:14 (user-editable)
    ERROR_ON_INCOMPLETE_DOWNLOAD,       \* index.js:17 (user-editable)
    ERROR_IF_GIST_FOUND_WITH_COMMENTS,  \* index.js:21 (user-editable)
    DELETE_ALL_GISTS_AFTER_DOWNLOAD,    \* index.js:26 (user-editable)
    source,             \* the user's gists as the API lists them: newest first
    disk,               \* the filesystem: path -> "dir" or the file's contents
    pc,                 \* the await main is suspended at, or idle/done/failed
    err,                \* the error the run ended with ("none" while it has none)
    inflight,           \* external operations issued and not yet completed
    issued,             \* every external operation this run issued, in order
    page,               \* getAllGists: the loop variable
    ret,                \* getAllGists: the accumulator
    rawGistInfoEntries, \* main: what getAllGists returned
    gistInfoEntries,    \* main: what makeProcessedGistInfo returned
    i,                  \* downloadEntries / deleteAllGists: the loop variable
    j,                  \* downloadEntry: the loop variable over the files
    contents,           \* downloadTextFile: the text read from the response
    deleted             \* the ids of the gists deleted at the remote

vars == <<GISTS_PER_PAGE, GIST_PAGE_LIMIT, ERROR_ON_INCOMPLETE_DOWNLOAD,
          ERROR_IF_GIST_FOUND_WITH_COMMENTS, DELETE_ALL_GISTS_AFTER_DOWNLOAD,
          source, disk, pc, err, inflight, issued, page, ret,
          rawGistInfoEntries, gistInfoEntries, i, j, contents, deleted>>

config == <<GISTS_PER_PAGE, GIST_PAGE_LIMIT, ERROR_ON_INCOMPLETE_DOWNLOAD,
            ERROR_IF_GIST_FOUND_WITH_COMMENTS, DELETE_ALL_GISTS_AFTER_DOWNLOAD>>

-----------------------------------------------------------------------------
(* JavaScript strings and the String methods the script uses.              *)

Min(a, b) == IF a < b THEN a ELSE b

Max(a, b) == IF a > b THEN a ELSE b

\* The JavaScript value null (a gist without description has description
\* null): no string, since its element is not one character.
JsNull == <<"null">>

\* The values of the variables that hold an array: undefined (what a
\* function returns that falls off its end), an array, or nothing yet for
\* a const that is not initialised yet.
JsUndefined == [type |-> "undefined", value |-> <<>>]

JsArray(a) == [type |-> "array", value |-> a]

Unassigned == [type |-> "unassigned", value |-> <<>>]

LowerLetters ==
    <<"a","b","c","d","e","f","g","h","i","j","k","l","m",
      "n","o","p","q","r","s","t","u","v","w","x","y","z">>

UpperLetters ==
    <<"A","B","C","D","E","F","G","H","I","J","K","L","M",
      "N","O","P","Q","R","S","T","U","V","W","X","Y","Z">>

DigitChars == <<"0","1","2","3","4","5","6","7","8","9">>

Range(s) == {s[k] : k \in 1..Len(s)}

\* The class \w of a regular expression without the u flag: [A-Za-z0-9_].
IsWordChar(c) ==
    c \in Range(LowerLetters) \cup Range(UpperLetters) \cup Range(DigitChars) \cup {"_"}

\* String.prototype.toLowerCase, one character.
ToLowerCaseChar(c) ==
    IF c \in Range(UpperLetters)
    THEN LowerLetters[CHOOSE k \in 1..Len(UpperLetters) : UpperLetters[k] = c]
    ELSE c

ToLowerCase(s) == [k \in 1..Len(s) |-> ToLowerCaseChar(s[k])]

\* str.slice(0, end): a negative end counts from the end of the string.
Slice(s, end) ==
    LET e == IF end < 0 THEN Max(Len(s) + end, 0) ELSE Min(end, Len(s))
    IN  SubSeq(s, 1, e)

\* str.lastIndexOf(c): the 0-based index of the last c, -1 when there is none.
LastIndexOf(s, c) ==
    IF \E k \in 1..Len(s) : s[k] = c
    THEN (CHOOSE k \in 1..Len(s) :
              s[k] = c /\ \A m \in (k+1)..Len(s) : s[m] # c) - 1
    ELSE -1

\* The length of the run of characters of one class (word, non-word) that
\* starts s.
RECURSIVE RunLength(_)
RunLength(s) ==
    IF Len(s) <= 1 THEN Len(s)
    ELSE IF IsWordChar(s[1]) = IsWordChar(s[2]) THEN 1 + RunLength(Tail(s))
    ELSE 1

\* str.split(/\b/): the string cut at every word boundary, so the maximal
\* runs of word characters and of non-word characters; [""] for "".
RECURSIVE SplitAtWordBoundaries(_)
SplitAtWordBoundaries(s) ==
    IF s = <<>> THEN << <<>> >>
    ELSE LET n == RunLength(s)
         IN  IF n = Len(s) THEN <<s>>
             ELSE <<SubSeq(s, 1, n)>> \o SplitAtWordBoundaries(SubSeq(s, n + 1, Len(s)))

\* /\w/.test(token)
HasWordChar(token) == \E k \in 1..Len(token) : IsWordChar(token[k])

\* tokens.join(sep)
RECURSIVE Join(_, _)
Join(tokens, sep) ==
    IF tokens = <<>> THEN <<>>
    ELSE IF Len(tokens) = 1 THEN tokens[1]
    ELSE tokens[1] \o <<sep>> \o Join(Tail(tokens), sep)

\* (n + ''): the decimal digits of a non-negative integer.
RECURSIVE NumberToString(_)
NumberToString(n) ==
    IF n < 10 THEN <<DigitChars[n + 1]>>
    ELSE NumberToString(n \div 10) \o <<DigitChars[(n % 10) + 1]>>

\* str.padStart(maxLength, c): maxLength goes through ToLength, which drops
\* the fraction of a non-integer.
PadStart(s, maxLength, c) ==
    IF Len(s) >= maxLength THEN s
    ELSE [k \in 1..(maxLength - Len(s)) |-> c] \o s

\* The integer part of Math.log10(n), n >= 1.
FloorLog10(n) == CHOOSE k \in 0..n : 10^k <= n /\ n < 10^(k + 1)

\* replaceAll(/^\W+/g, ''): drop the leading run of non-word characters.
RECURSIVE StripLeadingNonWord(_)
StripLeadingNonWord(s) ==
    IF s # <<>> /\ ~IsWordChar(Head(s)) THEN StripLeadingNonWord(Tail(s)) ELSE s

\* replaceAll(/\W+$/g, ''): drop the trailing run of non-word characters.
RECURSIVE StripTrailingNonWord(_)
StripTrailingNonWord(s) ==
    IF s # <<>> /\ ~IsWordChar(s[Len(s)])
    THEN StripTrailingNonWord(SubSeq(s, 1, Len(s) - 1))
    ELSE s

\* replaceAll(/\W+/g, '-'): every maximal run of non-word characters becomes
\* one hyphen.
RECURSIVE CollapseNonWord(_)
CollapseNonWord(s) ==
    IF s = <<>> THEN <<>>
    ELSE LET n    == RunLength(s)
             rest == CollapseNonWord(SubSeq(s, n + 1, Len(s)))
         IN  IF IsWordChar(s[1]) THEN SubSeq(s, 1, n) \o rest ELSE <<"-">> \o rest


-----------------------------------------------------------------------------
(* Thrown errors.  A function that can throw is modelled by an operator    *)
(* whose value is [error, value]: error is "none" and value the result, or *)
(* error names what was thrown.  The names are those of the taxonomy of    *)
(* the design document; TypeError is the JavaScript runtime's.             *)

Returns(v) == [error |-> "none", value |-> v]

Throws(e) == [error |-> e, value |-> <<>>]

-----------------------------------------------------------------------------
(* Naming (addDownloadedGistDirectoryName) and processing.                 *)

MAX_GISTS_TO_DOWNLOAD == GIST_PAGE_LIMIT * GISTS_PER_PAGE

maxDirectoryNameLength == 42

\* The width rounded up, ceil(log10(MAX_GISTS_TO_DOWNLOAD)) + 1 when the
\* total is not a power of ten.
indexPaddingSizeRoundedUp == FloorLog10(MAX_GISTS_TO_DOWNLOAD) + 2

\* Math.log10(MAX_GISTS_TO_DOWNLOAD) + 1, as padStart reads it: ToLength
\* drops the fraction of log10(300) + 1 = 3.477...
indexPaddingSize == FloorLog10(MAX_GISTS_TO_DOWNLOAD) + 1

\* The padding alone, the index left out of the name.
paddedIndexWithoutIndex(index) == PadStart(<<>>, indexPaddingSize, "0")

paddedIndex(index) == PadStart(NumberToString(index), indexPaddingSize, "0")

shortHash(id) == Slice(id, 8)

\* The budget of the chunk with the two separators forgotten.
maxTextChunkLengthWithoutSeparators(paddedIndexLength, shortHashLength) ==
    maxDirectoryNameLength - (paddedIndexLength + shortHashLength)

maxTextChunkLength(paddedIndexLength, shortHashLength) ==
    maxDirectoryNameLength - (2 + paddedIndexLength + shortHashLength)

\* description.split(/\b/).filter(token => /\w/.test(token))
\*            .map(token => token.toLowerCase())
descriptionTokens(description) ==
    LET parts == SplitAtWordBoundaries(description)
        kept  == SelectSeq(parts, HasWordChar)
    IN  [k \in 1..Len(kept) |-> ToLowerCase(kept[k])]

\* index.js:93-98
descriptionChunk(description, budget) ==
    LET joinedDescriptionTokens == Slice(Join(descriptionTokens(description), "-"), budget + 1)
    IN  IF Len(joinedDescriptionTokens) > budget
        THEN Slice(joinedDescriptionTokens, LastIndexOf(joinedDescriptionTokens, "-"))
        ELSE joinedDescriptionTokens

\* index.js:102-107
fileNameChunk(filename, budget) ==
    Slice(CollapseNonWord(StripTrailingNonWord(StripLeadingNonWord(filename))), budget)

\* `${paddedIndex}-${chunk}-${shortHash}`
ComposeName(padded, chunk, hash) == padded \o <<"-">> \o chunk \o <<"-">> \o hash

\* The value is gistInfo with its downloadDirectoryName set.  A description
\* that is null has no split method and files[0] of an empty array has no
\* filename: both throw a TypeError.
addDownloadedGistDirectoryName(gistInfo) ==
    LET padded == paddedIndex(gistInfo.index)
        files  == gistInfo.files
        hash   == shortHash(gistInfo.rawGistInfo.id)
        budget == maxTextChunkLength(Len(padded), Len(hash))
        named(chunk) ==
            [gistInfo EXCEPT !.downloadDirectoryName = ComposeName(padded, chunk, hash)]
    IN  IF gistInfo.rawGistInfo.description = JsNull THEN Throws("TypeError")
        ELSE IF Len(files) > 1
        THEN Returns(named(descriptionChunk(gistInfo.rawGistInfo.description, budget)))
        ELSE IF Len(files) = 0 THEN Throws("TypeError")
        ELSE Returns(named(fileNameChunk(files[1].filename, budget)))

\* The files of the raw record in the enumeration order of its keys: the
\* raw record's files are modelled as the sequence in that order.
tidyGistInfoEntryFiles(rawGistInfo) == rawGistInfo.files

\* makeGistInfoEntry without the comments check.
makeGistInfoEntryWithoutCommentsCheck(rawGistInfo, index) ==
    addDownloadedGistDirectoryName(
        [index |-> index, rawGistInfo |-> rawGistInfo,
         files |-> tidyGistInfoEntryFiles(rawGistInfo),
         downloadDirectoryName |-> <<>>])

\* The comments check comes after the naming.
makeGistInfoEntry(rawGistInfo, index) ==
    LET gistInfo == [index |-> index, rawGistInfo |-> rawGistInfo,
                     files |-> tidyGistInfoEntryFiles(rawGistInfo),
                     downloadDirectoryName |-> <<>>]
        named == addDownloadedGistDirectoryName(gistInfo)
    IN  IF named.error # "none" THEN named
        ELSE IF rawGistInfo.comments > 0 /\ ERROR_IF_GIST_FOUND_WITH_COMMENTS
        THEN Throws("UnsupportedContent")
        ELSE named

\* makeProcessedGistInfo leaving out the entries that throw, and going on.
makeProcessedGistInfoSkipping(entries) ==
    IF entries.type # "array" THEN Throws("TypeError")
    ELSE LET n    == Len(entries.value)
             made == [k \in 1..n |-> makeGistInfoEntry(entries.value[k], k - 1)]
             kept == SelectSeq(made, LAMBDA r : r.error = "none")
         IN  Returns(JsArray([k \in 1..Len(kept) |-> kept[k].value]))

\* rawGistInfoEntries.map(makeGistInfoEntry): the entries in order, index =
\* position from 0; the first entry that throws ends the map.  undefined
\* has no map method.
makeProcessedGistInfo(entries) ==
    IF entries.type # "array" THEN Throws("TypeError")
    ELSE LET n    == Len(entries.value)
             made == [k \in 1..n |-> makeGistInfoEntry(entries.value[k], k - 1)]
         IN  IF \E k \in 1..n : made[k].error # "none"
             THEN made[CHOOSE k \in 1..n :
                           /\ made[k].error # "none"
                           /\ \A m \in 1..(k - 1) : made[m].error = "none"]
             ELSE Returns(JsArray([k \in 1..n |-> made[k].value]))

-----------------------------------------------------------------------------
(* The environment: the gists at the remote, the content source, the disk. *)

\* The most gists the user has.
MaxGists == 4

\* The values of (GISTS_PER_PAGE, GIST_PAGE_LIMIT) the runs are checked for.
PageConfigs == {<<1, 2>>, <<2, 1>>, <<2, 2>>}

\* The first 8 characters of the ids, the same for all the gists of a
\* source: the names differ by their index alone.
CommonHash == <<"a","b","c","d","e","f","0","1">>

FooTxt == <<"f","o","o",".","t","x","t">>

BarJs == <<"b","a","r",".","j","s">>

MyCoolGist == <<"M","y"," ","C","o","o","l"," ","G","i","s","t","!">>

\* A file descriptor of a raw record.  raw_url stands for the locator and
\* for what the content source has there: the file's text, or nothing (the
\* source answers 404).
File(filename, found) ==
    [filename |-> filename, raw_url |-> [file |-> filename, found |-> found]]

\* The kinds of gist of the sources: "plain" has one file, a description
\* and no comments; each other kind differs from it in one respect.
Kinds == {"plain", "commented", "multi", "nulldesc", "nullcommented", "gone"}

\* The raw record (an entry of the response of GET /gists) of the gist that
\* was created as the rank-th, rank = 1 for the oldest.
RawGist(rank, kind) ==
    [id          |-> CommonHash \o NumberToString(rank),
     description |-> IF kind \in {"nulldesc", "nullcommented"} THEN JsNull ELSE MyCoolGist,
     comments    |-> IF kind \in {"commented", "nullcommented"} THEN 1 ELSE 0,
     files       |-> IF kind = "multi" THEN <<File(FooTxt, TRUE), File(BarJs, TRUE)>>
                     ELSE <<File(FooTxt, kind # "gone")>>]

\* The sources: n gists, all plain but at most one, listed newest first.
Sources ==
    UNION {
        { [k \in 1..n |-> RawGist(n + 1 - k, kinds[k])] :
            kinds \in { f \in [1..n -> Kinds] :
                          \A a, b \in 1..n : f[a] # "plain" /\ f[b] # "plain" => a = b } }
        : n \in 0..MaxGists }

\* What the remote lists now: the gists that were not deleted.
Remote == SelectSeq(source, LAMBDA g : g.id \notin deleted)

\* The response of GET /gists{?per_page,page}: data is the page-th slice of
\* per_page entries of the list, empty past its end.
GistsPage(per_page, p) ==
    SubSeq(Remote, (p - 1) * per_page + 1, Min(p * per_page, Len(Remote)))

\* response.text() of fetch(raw_url): the file's text, or the body of the
\* 404 answer; fetch does not throw on a 404.
ResponseText(raw_url) ==
    IF raw_url.found THEN <<"text of", raw_url.file>> ELSE <<"404: Not Found", <<>>>>

Dir == <<"dir", <<>>>>

JsonFile(obj) == <<"json", obj>>

TextFile(text) == <<"text", text>>

DOWNLOAD_DIRECTORY == <<"downloaded">>

dirName(gistInfo) == DOWNLOAD_DIRECTORY \o <<gistInfo.downloadDirectoryName>>

infoFromApiFilePath(gistInfo) == dirName(gistInfo) \o <<"info-from-api.json">>

contentsDirName(gistInfo) == dirName(gistInfo) \o <<"contents">>

downloadPathToFileFromGist(gistInfo, file) == contentsDirName(gistInfo) \o <<file.filename>>

Exists(path) == path \in DOMAIN disk

Parent(path) == SubSeq(path, 1, Len(path) - 1)

\* fs.mkdir and fs.writeFile need the parent directory ('.' always exists).
ParentIsDir(path) == Len(path) = 1 \/ (Exists(Parent(path)) /\ disk[Parent(path)] = Dir)

Written(path, what) == (path :> what) @@ disk

-----------------------------------------------------------------------------
(* The external operations.                                                *)

MkdirOp(path) == <<"mkdir", path>>

WriteFileOp(path) == <<"writeFile", path>>

ReadTokenOp == <<"readFile", <<"token.txt">>>>

RequestPageOp(p) == <<"GET /gists", p>>

FetchOp(raw_url) == <<"fetch", raw_url>>

DeleteOp(gist_id) == <<"DELETE /gists/{gist_id}", gist_id>>

-----------------------------------------------------------------------------
(* How main moves from one await to the next.  `done` is the operation     *)
(* whose completion resumed it.                                            *)

\* main issuing op without having awaited the operation before it.
AwaitWithoutCompleting(done, op, at, ni, nj) ==
    /\ pc' = at
    /\ err' = err
    /\ inflight' = inflight \cup {op}
    /\ issued' = Append(issued, op)
    /\ i' = ni
    /\ j' = nj

\* main suspends at `at`, on the operation op it has just issued.
Await(done, op, at, ni, nj) ==
    /\ pc' = at
    /\ err' = err
    /\ inflight' = (inflight \ {done}) \cup {op}
    /\ issued' = Append(issued, op)
    /\ i' = ni
    /\ j' = nj

\* The error caught and the operation that failed issued again.
FailThenRetry(done, e) ==
    /\ pc' = pc
    /\ err' = e
    /\ inflight' = inflight
    /\ issued' = Append(issued, done)
    /\ UNCHANGED <<i, j>>

\* An error is thrown: nothing in main catches it, the run ends.
Fail(done, e) ==
    /\ pc' = "failed"
    /\ err' = e
    /\ inflight' = inflight \ {done}
    /\ UNCHANGED <<issued, i, j>>

\* main reaches its end: 'Done.'
Finish(done) ==
    /\ pc' = "done"
    /\ inflight' = inflight \ {done}
    /\ UNCHANGED <<err, issued, i, j>>

\* deleteAllGists, from the loop test with i = k.
DeleteFrom(done, entries, k) ==
    IF k < Len(entries)
    THEN Await(done, DeleteOp(entries[k + 1].rawGistInfo.id), "delete", k, j)
    ELSE Finish(done)

\* main deleting whatever the flag says.
AfterDownloadsUngated(done, entries) == DeleteFrom(done, entries, 0)

\* main after downloadEntries has returned (index.js:190-197).
AfterDownloads(done, entries) ==
    IF DELETE_ALL_GISTS_AFTER_DOWNLOAD
    THEN DeleteFrom(done, entries, 0)
    ELSE Finish(done)

\* downloadEntries not awaited: main goes on at once.
DownloadFromNotAwaited(done, entries, k) == AfterDownloads(done, entries)

\* downloadEntries, from the loop test with i = k: downloadEntry starts with
\* the mkdir of the entry's directory.
DownloadFrom(done, entries, k) ==
    IF k < Len(entries)
    THEN Await(done, MkdirOp(dirName(entries[k + 1])), "mkdirEntry", k, j)
    ELSE AfterDownloads(done, entries)

\* downloadEntry's loop over the files, from the loop test with i = k:
\* downloadTextFile starts with the fetch of the file's raw_url.
FilesFrom(done, entries, k) ==
    LET gistInfo == entries[i + 1]
    IN  IF k < Len(gistInfo.files)
        THEN Await(done, FetchOp(gistInfo.files[k + 1].raw_url), "fetch", i, k)
        ELSE DownloadFrom(done, entries, i + 1)

\* getAllGists without the probe page: the loop ends at GIST_PAGE_LIMIT.
getAllGistsNoProbePage(acc, p, entries) ==
    IF Len(entries) > 0
    THEN IF p + 1 <= GIST_PAGE_LIMIT
         THEN [next |-> "request", ret |-> acc \o entries, page |-> p + 1,
               result |-> Unassigned]
         ELSE IF ERROR_ON_INCOMPLETE_DOWNLOAD
         THEN [next |-> "throw", ret |-> acc \o entries, page |-> p + 1,
               result |-> Unassigned]
         ELSE [next |-> "return", ret |-> acc \o entries, page |-> p + 1,
               result |-> JsUndefined]
    ELSE LET reversed == [k \in 1..Len(acc) |-> acc[Len(acc) + 1 - k]]
         IN  [next |-> "return", ret |-> reversed, page |-> p,
              result |-> JsArray(reversed)]

\* getAllGists ending in `return ret` rather than falling off its end.
getAllGistsReturningPartial(acc, p, entries) ==
    IF Len(entries) > 0
    THEN IF p + 1 <= GIST_PAGE_LIMIT + 1
         THEN [next |-> "request", ret |-> acc \o entries, page |-> p + 1,
               result |-> Unassigned]
         ELSE IF ERROR_ON_INCOMPLETE_DOWNLOAD
         THEN [next |-> "throw", ret |-> acc \o entries, page |-> p + 1,
               result |-> Unassigned]
         ELSE [next |-> "return", ret |-> acc \o entries, page |-> p + 1,
               result |-> JsArray(acc \o entries)]
    ELSE LET reversed == [k \in 1..Len(acc) |-> acc[Len(acc) + 1 - k]]
         IN  [next |-> "return", ret |-> reversed, page |-> p,
              result |-> JsArray(reversed)]

\* getAllGists reversing each page as it comes rather than the whole list.
getAllGistsReversingEachPage(acc, p, entries) ==
    LET reversed == [k \in 1..Len(entries) |-> entries[Len(entries) + 1 - k]]
    IN  IF Len(entries) > 0
        THEN IF p + 1 <= GIST_PAGE_LIMIT + 1
             THEN [next |-> "request", ret |-> acc \o reversed, page |-> p + 1,
                   result |-> Unassigned]
             ELSE IF ERROR_ON_INCOMPLETE_DOWNLOAD
             THEN [next |-> "throw", ret |-> acc \o reversed, page |-> p + 1,
                   result |-> Unassigned]
             ELSE [next |-> "return", ret |-> acc \o reversed, page |-> p + 1,
                   result |-> JsUndefined]
        ELSE [next |-> "return", ret |-> acc, page |-> p, result |-> JsArray(acc)]

\* getAllGists going on to the next page after an empty one.
getAllGistsPastEmptyPages(acc, p, entries) ==
    IF p + 1 <= GIST_PAGE_LIMIT + 1
    THEN [next |-> "request", ret |-> acc \o entries, page |-> p + 1,
          result |-> Unassigned]
    ELSE IF Len(entries) = 0
    THEN LET reversed == [k \in 1..Len(acc) |-> acc[Len(acc) + 1 - k]]
         IN  [next |-> "return", ret |-> reversed, page |-> p,
              result |-> JsArray(reversed)]
    ELSE IF ERROR_ON_INCOMPLETE_DOWNLOAD
    THEN [next |-> "throw", ret |-> acc \o entries, page |-> p + 1,
          result |-> Unassigned]
    ELSE [next |-> "return", ret |-> acc \o entries, page |-> p + 1,
          result |-> JsUndefined]

\* getAllGists once the response to the request of page p is there, acc
\* being ret: what it does next ("request" the page `page`, "return" result
\* or "throw"), and ret after it.  Falling off the end returns undefined.
getAllGists(acc, p, entries) ==
    IF Len(entries) > 0
    THEN IF p + 1 <= GIST_PAGE_LIMIT + 1
         THEN [next |-> "request", ret |-> acc \o entries, page |-> p + 1,
               result |-> Unassigned]
         ELSE IF ERROR_ON_INCOMPLETE_DOWNLOAD
         THEN [next |-> "throw", ret |-> acc \o entries, page |-> p + 1,
               result |-> Unassigned]
         ELSE [next |-> "return", ret |-> acc \o entries, page |-> p + 1,
               result |-> JsUndefined]
    ELSE LET reversed == [k \in 1..Len(acc) |-> acc[Len(acc) + 1 - k]]
         IN  [next |-> "return", ret |-> reversed, page |-> p,
              result |-> JsArray(reversed)]

\* main from the return of getAllGists to its next await (index.js:185-189).
AfterGetAllGists(done, raw) ==
    LET processed == makeProcessedGistInfo(raw)
    IN  /\ rawGistInfoEntries' = raw
        /\ IF processed.error # "none"
           THEN Fail(done, processed.error) /\ UNCHANGED gistInfoEntries
           ELSE /\ gistInfoEntries' = processed.value
                /\ DownloadFrom(done, processed.value.value, 0)

-----------------------------------------------------------------------------
(* The actions: the start of main and the completion of each operation.    *)

RunStart ==
    /\ pc = "idle" /\ err = "none" /\ inflight = {} /\ issued = <<>>
    /\ page = 0 /\ ret = <<>> /\ i = 0 /\ j = 0 /\ contents = <<>>
    /\ rawGistInfoEntries = Unassigned /\ gistInfoEntries = Unassigned

Init ==
    /\ \E c \in PageConfigs : GISTS_PER_PAGE = c[1] /\ GIST_PAGE_LIMIT = c[2]
    /\ ERROR_ON_INCOMPLETE_DOWNLOAD \in BOOLEAN
    /\ ERROR_IF_GIST_FOUND_WITH_COMMENTS \in BOOLEAN
    /\ DELETE_ALL_GISTS_AFTER_DOWNLOAD \in BOOLEAN
    /\ source \in Sources
    /\ disk = <<>>
    /\ deleted = {}
    /\ RunStart

\* main is called: fs.mkdir(DOWNLOAD_DIRECTORY) is issued.
Start ==
    /\ pc = "idle"
    /\ pc' = "mkdirRoot"
    /\ inflight' = inflight \cup {MkdirOp(DOWNLOAD_DIRECTORY)}
    /\ issued' = Append(issued, MkdirOp(DOWNLOAD_DIRECTORY))
    /\ UNCHANGED <<config, source, disk, err, page, ret, rawGistInfoEntries,
                   gistInfoEntries, i, j, contents, deleted>>

\* main making the directory with { recursive: true }: no EEXIST.
MkdirRootDoneRecursive ==
    LET op == MkdirOp(DOWNLOAD_DIRECTORY)
    IN  /\ pc = "mkdirRoot"
        /\ \/ /\ disk' = Written(DOWNLOAD_DIRECTORY, Dir)
              /\ Await(op, ReadTokenOp, "readToken", i, j)
           \/ /\ Fail(op, "FilesystemFailure")
              /\ UNCHANGED disk
        /\ UNCHANGED <<config, source, page, ret, rawGistInfoEntries,
                       gistInfoEntries, contents, deleted>>

\* main removing a download directory it finds and making it anew.
MkdirRootDoneReplacing ==
    LET op == MkdirOp(DOWNLOAD_DIRECTORY)
    IN  /\ pc = "mkdirRoot"
        /\ \/ /\ disk' = (DOWNLOAD_DIRECTORY :> Dir)
              /\ Await(op, ReadTokenOp, "readToken", i, j)
           \/ /\ Fail(op, "FilesystemFailure")
              /\ UNCHANGED disk
        /\ UNCHANGED <<config, source, page, ret, rawGistInfoEntries,
                       gistInfoEntries, contents, deleted>>

\* index.js:170-184: EEXIST is reported as the DestinationExists error, any
\* other error is rethrown; then initOctokit reads token.txt.
MkdirRootDone ==
    LET op == MkdirOp(DOWNLOAD_DIRECTORY)
    IN  /\ pc = "mkdirRoot"
        /\ \/ /\ Exists(DOWNLOAD_DIRECTORY)
              /\ Fail(op, "DestinationExists")
              /\ UNCHANGED disk
           \/ /\ ~Exists(DOWNLOAD_DIRECTORY)
              /\ disk' = Written(DOWNLOAD_DIRECTORY, Dir)
              /\ Await(op, ReadTokenOp, "readToken", i, j)
           \/ /\ ~Exists(DOWNLOAD_DIRECTORY)
              /\ Fail(op, "FilesystemFailure")
              /\ UNCHANGED disk
        /\ UNCHANGED <<config, source, page, ret, rawGistInfoEntries,
                       gistInfoEntries, contents, deleted>>

\* index.js:43-58: the token is read, or the read fails; getAllGists
\* requests page 1.
ReadTokenDone ==
    /\ pc = "readToken"
    /\ \/ /\ page' = 1
          /\ ret' = <<>>
          /\ Await(ReadTokenOp, RequestPageOp(1), "requestPage", i, j)
       \/ /\ Fail(ReadTokenOp, "ConfigurationError")
          /\ UNCHANGED <<page, ret>>
    /\ UNCHANGED <<config, source, disk, rawGistInfoEntries, gistInfoEntries,
                   contents, deleted>>

\* index.js:58-70 and, when getAllGists returns, main up to its next await.
RequestPageDone ==
    LET op   == RequestPageOp(page)
        step == getAllGists(ret, page, GistsPage(GISTS_PER_PAGE, page))
    IN  /\ pc = "requestPage"
        /\ \/ /\ Fail(op, "TransportFailure")
              /\ UNCHANGED <<page, ret, rawGistInfoEntries, gistInfoEntries>>
           \/ /\ page' = step.page
              /\ ret' = step.ret
              /\ CASE step.next = "request" ->
                        /\ Await(op, RequestPageOp(step.page), "requestPage", i, j)
                        /\ UNCHANGED <<rawGistInfoEntries, gistInfoEntries>>
                   [] step.next = "throw" ->
                        /\ Fail(op, "IncompleteDownload")
                        /\ UNCHANGED <<rawGistInfoEntries, gistInfoEntries>>
                   [] step.next = "return" ->
                        AfterGetAllGists(op, step.result)
        /\ UNCHANGED <<config, source, disk, contents, deleted>>

\* index.js:138-141: the entry's directory is made, info-from-api.json is
\* written next.
MkdirEntryDone ==
    LET gistInfo == gistInfoEntries.value[i + 1]
        path     == dirName(gistInfo)
        op       == MkdirOp(path)
    IN  /\ pc = "mkdirEntry"
        /\ \/ /\ ~Exists(path) /\ ParentIsDir(path)
              /\ disk' = Written(path, Dir)
              /\ Await(op, WriteFileOp(infoFromApiFilePath(gistInfo)), "saveInfo", i, j)
           \/ /\ Fail(op, "FilesystemFailure")
              /\ UNCHANGED disk
        /\ UNCHANGED <<config, source, page, ret, rawGistInfoEntries,
                       gistInfoEntries, contents, deleted>>

\* index.js:38-41, 141-144: the raw record is written as JSON, the contents
\* directory is made next.
SaveInfoDone ==
    LET gistInfo == gistInfoEntries.value[i + 1]
        path     == infoFromApiFilePath(gistInfo)
        op       == WriteFileOp(path)
    IN  /\ pc = "saveInfo"
        /\ \/ /\ ParentIsDir(path)
              /\ disk' = Written(path, JsonFile(gistInfo.rawGistInfo))
              /\ Await(op, MkdirOp(contentsDirName(gistInfo)), "mkdirContents", i, j)
           \/ /\ Fail(op, "FilesystemFailure")
              /\ UNCHANGED disk
        /\ UNCHANGED <<config, source, page, ret, rawGistInfoEntries,
                       gistInfoEntries, contents, deleted>>

\* index.js:144-150: the contents directory is made, the loop over the
\* files starts.
MkdirContentsDone ==
    LET gistInfo == gistInfoEntries.value[i + 1]
        path     == contentsDirName(gistInfo)
        op       == MkdirOp(path)
    IN  /\ pc = "mkdirContents"
        /\ \/ /\ ~Exists(path) /\ ParentIsDir(path)
              /\ disk' = Written(path, Dir)
              /\ FilesFrom(op, gistInfoEntries.value, 0)
           \/ /\ Fail(op, "FilesystemFailure")
              /\ UNCHANGED disk
        /\ UNCHANGED <<config, source, page, ret, rawGistInfoEntries,
                       gistInfoEntries, contents, deleted>>

\* index.js:33-35: the response is there and its text is read (whatever its
\* status), or fetch throws; the text is written next.
FetchDone ==
    LET gistInfo == gistInfoEntries.value[i + 1]
        file     == gistInfo.files[j + 1]
        op       == FetchOp(file.raw_url)
    IN  /\ pc = "fetch"
        /\ \/ /\ contents' = ResponseText(file.raw_url)
              /\ Await(op, WriteFileOp(downloadPathToFileFromGist(gistInfo, file)),
                       "writeFile", i, j)
           \/ /\ Fail(op, "TransportFailure")
              /\ UNCHANGED contents
        /\ UNCHANGED <<config, source, disk, page, ret, rawGistInfoEntries,
                       gistInfoEntries, deleted>>

\* index.js:35, 146-158, 190-195: the file is written; then the next file,
\* the next entry, the deletion or the end of main.
WriteFileDone ==
    LET gistInfo == gistInfoEntries.value[i + 1]
        file     == gistInfo.files[j + 1]
        path     == downloadPathToFileFromGist(gistInfo, file)
        op       == WriteFileOp(path)
    IN  /\ pc = "writeFile"
        /\ \/ /\ ParentIsDir(path)
              /\ disk' = Written(path, TextFile(contents))
              /\ FilesFrom(op, gistInfoEntries.value, j + 1)
           \/ /\ Fail(op, "FilesystemFailure")
              /\ UNCHANGED disk
        /\ UNCHANGED <<config, source, page, ret, rawGistInfoEntries,
                       gistInfoEntries, contents, deleted>>

\* index.js:162-166, 197: the gist is deleted, the next one is deleted next.
DeleteDone ==
    LET gist_id == gistInfoEntries.value[i + 1].rawGistInfo.id
        op      == DeleteOp(gist_id)
    IN  /\ pc = "delete"
        /\ \/ /\ deleted' = deleted \cup {gist_id}
              /\ DeleteFrom(op, gistInfoEntries.value, i + 1)
           \/ /\ Fail(op, "TransportFailure")
              /\ UNCHANGED deleted
        /\ UNCHANGED <<config, source, disk, page, ret, rawGistInfoEntries,
                       gistInfoEntries, contents>>

\* The script is run again: the process and its variables are new, the disk
\* and the remote are as the last run left them.
Restart ==
    /\ pc \in {"done", "failed"}
    /\ pc' = "idle" /\ err' = "none" /\ inflight' = {} /\ issued' = <<>>
    /\ page' = 0 /\ ret' = <<>> /\ i' = 0 /\ j' = 0 /\ contents' = <<>>
    /\ rawGistInfoEntries' = Unassigned /\ gistInfoEntries' = Unassigned
    /\ UNCHANGED <<config, source, disk, deleted>>

Next ==
    \/ Start
    \/ MkdirRootDone
    \/ ReadTokenDone
    \/ RequestPageDone
    \/ MkdirEntryDone
    \/ SaveInfoDone
    \/ MkdirContentsDone
    \/ FetchDone
    \/ WriteFileDone
    \/ DeleteDone
    \/ Restart

Spec == Init /\ [][Next]_vars

-----------------------------------------------------------------------------
(* The naming alone: addDownloadedGistDirectoryName applied to one gist,   *)
(* for indices, descriptions, filenames and ids that the small sources of  *)
(* Spec do not have (long ones, and the reference configuration 3 * 100).  *)

Repeat(s, n) == [k \in 1..(n * Len(s)) |-> s[((k - 1) % Len(s)) + 1]]

\* (GISTS_PER_PAGE, GIST_PAGE_LIMIT): the reference configuration, a small
\* one and one for 1000 gists.
NamingConfigs == {<<100, 3>>, <<2, 2>>, <<100, 10>>}

NamingIndices == {0, 9, 10, 99, 100, 299, 999}

NamingDescriptions ==
    { <<>>, MyCoolGist, Repeat(MyCoolGist, 4), Repeat(<<"x">>, 40),
      <<"a">> \o Repeat(<<"-">>, 35) \o <<"b">>, JsNull }

NamingFilenames ==
    { FooTxt, Repeat(<<"a">>, 40) \o FooTxt, Repeat(FooTxt, 6), <<".", ".">> }

\* A current id (32 hexadecimal digits) and an old, numeric one.
NamingIds ==
    { Repeat(CommonHash, 4), <<"1","2","3","4","5","6","7">> }

NamingGists ==
    { [id |-> id, description |-> description, comments |-> 0,
       files |-> IF many THEN <<File(filename, TRUE), File(BarJs, TRUE)>>
                 ELSE <<File(filename, TRUE)>>] :
        id \in NamingIds, description \in NamingDescriptions,
        filename \in NamingFilenames, many \in BOOLEAN }

\* The gist source[1] is about to be named as the entry of index i.
NamingInit ==
    /\ \E c \in NamingConfigs : GISTS_PER_PAGE = c[1] /\ GIST_PAGE_LIMIT = c[2]
    /\ ERROR_ON_INCOMPLETE_DOWNLOAD = TRUE
    /\ ERROR_IF_GIST_FOUND_WITH_COMMENTS = TRUE
    /\ DELETE_ALL_GISTS_AFTER_DOWNLOAD = FALSE
    /\ \E g \in NamingGists : source = <<g>>
    /\ i \in {n \in NamingIndices : n < MAX_GISTS_TO_DOWNLOAD}
    /\ pc = "naming" /\ err = "none" /\ inflight = {} /\ issued = <<>>
    /\ page = 0 /\ ret = <<>> /\ j = 0 /\ contents = <<>>
    /\ rawGistInfoEntries = JsArray(source) /\ gistInfoEntries = Unassigned
    /\ disk = <<>> /\ deleted = {}

\* addDownloadedGistDirectoryName(gistInfo), as makeGistInfoEntry calls it.
ApplyNaming ==
    LET named == addDownloadedGistDirectoryName(
                     [index |-> i, rawGistInfo |-> source[1],
                      files |-> tidyGistInfoEntryFiles(source[1]),
                      downloadDirectoryName |-> <<>>])
    IN  /\ pc = "naming"
        /\ IF named.error = "none"
           THEN /\ gistInfoEntries' = JsArray(<<named.value>>)
                /\ pc' = "named"
                /\ err' = err
           ELSE /\ gistInfoEntries' = gistInfoEntries
                /\ pc' = "failed"
                /\ err' = named.error
        /\ UNCHANGED <<config, source, disk, inflight, issued, page, ret,
                       rawGistInfoEntries, i, j, contents, deleted>>

NamingNext == ApplyNaming

SpecNaming == NamingInit /\ [][NamingNext]_vars

-----------------------------------------------------------------------------
(* What the properties below speak of.                                     *)

IsDelete(op) == op[1] = "DELETE /gists/{gist_id}"

IsPageRequest(op) == op[1] = "GET /gists"

\* The operations a run issues before it has any record to write.
IsPreflightOrFetch(op) ==
    \/ op[1] = "mkdir" /\ op[2] = DOWNLOAD_DIRECTORY
    \/ op[1] = "readFile"
    \/ IsPageRequest(op)

\* The delete requests the run has issued, in order.
DeletesIssued == SelectSeq(issued, IsDelete)

\* getAllGists has returned (main has its value).
Returned == rawGistInfoEntries.type # "unassigned"

\* makeProcessedGistInfo has returned (main has its value).
Processed == gistInfoEntries.type = "array"

IsDirOnDisk(path) == Exists(path) /\ disk[path] = Dir

\* The archive of the entry is complete on the disk: its directory, its
\* info-from-api.json holding the raw record, and a file for each of its
\* files under contents/.
Archived(gistInfo) ==
    /\ IsDirOnDisk(dirName(gistInfo))
    /\ Exists(infoFromApiFilePath(gistInfo))
    /\ disk[infoFromApiFilePath(gistInfo)] = JsonFile(gistInfo.rawGistInfo)
    /\ IsDirOnDisk(contentsDirName(gistInfo))
    /\ \A k \in 1..Len(gistInfo.files) :
           /\ Exists(downloadPathToFileFromGist(gistInfo, gistInfo.files[k]))
           /\ disk[downloadPathToFileFromGist(gistInfo, gistInfo.files[k])][1] = "text"

HasCommentedGist(list) == \E k \in 1..Len(list) : list[k].comments > 0

-----------------------------------------------------------------------------
(* Properties.                                                             *)

\* C1: with ERROR_ON_INCOMPLETE_DOWNLOAD set and N gists at the remote,
\* getAllGists never throws IncompleteDownload when N <= GIST_PAGE_LIMIT *
\* GISTS_PER_PAGE, never returns when N is larger, and what it returns is
\* exactly the N gists, each once.
C1_Completeness ==
    ERROR_ON_INCOMPLETE_DOWNLOAD =>
        /\ Len(source) <= MAX_GISTS_TO_DOWNLOAD => err # "IncompleteDownload"
        /\ Len(source) > MAX_GISTS_TO_DOWNLOAD => ~Returned
        /\ Returned =>
              /\ rawGistInfoEntries.type = "array"
              /\ Len(rawGistInfoEntries.value) = Len(source)
              /\ Range(rawGistInfoEntries.value) = Range(source)

\* getAllGists has returned all the gists of a remote that holds exactly
\* GIST_PAGE_LIMIT * GISTS_PER_PAGE of them.
C1_Witness ==
    /\ ERROR_ON_INCOMPLETE_DOWNLOAD
    /\ Len(source) = MAX_GISTS_TO_DOWNLOAD
    /\ rawGistInfoEntries.type = "array"
    /\ Len(rawGistInfoEntries.value) = MAX_GISTS_TO_DOWNLOAD

\* C2: whatever the flags and the number of gists, when main has run to its
\* end without an error every gist of the remote has its directory, its
\* info-from-api.json and each of its files on the disk.
C2_NoSilentPartialCompletion ==
    pc = "done" =>
        /\ Processed
        /\ \A k \in 1..Len(source) :
               \E m \in 1..Len(gistInfoEntries.value) :
                   /\ gistInfoEntries.value[m].rawGistInfo = source[k]
                   /\ Archived(gistInfoEntries.value[m])

\* main has run to its end with the incomplete-download error switched off
\* and has archived several gists.
C2_Witness ==
    /\ pc = "done"
    /\ ~ERROR_ON_INCOMPLETE_DOWNLOAD
    /\ Len(source) >= 2
    /\ \A k \in 1..Len(gistInfoEntries.value) : Archived(gistInfoEntries.value[k])

\* C3: when a delete request has been issued, the archive of every entry of
\* the run is complete on the disk, the delete request is the only
\* operation in flight, and every operation issued after the first delete
\* request is a delete request; so a run that failed in a fetch, validation
\* or write step has issued no delete request.
C3_DeleteOnlyAfterAllDownloads ==
    /\ \A k \in 1..Len(issued) :
           IsDelete(issued[k]) =>
               /\ Processed
               /\ \A m \in 1..Len(gistInfoEntries.value) :
                      Archived(gistInfoEntries.value[m])
               /\ \A m \in k..Len(issued) : IsDelete(issued[m])
               /\ inflight \subseteq {issued[Len(issued)]}
    /\ (pc = "failed" /\ issued # <<>> /\ ~IsDelete(issued[Len(issued)]))
           => DeletesIssued = <<>>

\* The first delete request is in flight, after the download of several
\* gists.
C3_Witness ==
    /\ pc = "delete"
    /\ i = 0
    /\ Len(gistInfoEntries.value) >= 2
    /\ \A m \in 1..Len(gistInfoEntries.value) : Archived(gistInfoEntries.value[m])

\* C4: with DELETE_ALL_GISTS_AFTER_DOWNLOAD false no delete request is ever
\* issued; with it true the delete requests issued are those for the ids of
\* the archived entries, one each, in the order of the index (the first of
\* them while the deletion is under way, all of them when main has ended
\* without an error).
C4_DeletionGatedByFlag ==
    /\ ~DELETE_ALL_GISTS_AFTER_DOWNLOAD => DeletesIssued = <<>>
    /\ DeletesIssued # <<>> =>
           /\ Processed
           /\ Len(DeletesIssued) <= Len(gistInfoEntries.value)
           /\ \A k \in 1..Len(DeletesIssued) :
                  DeletesIssued[k] = DeleteOp(gistInfoEntries.value[k].rawGistInfo.id)
    /\ (pc = "done" /\ DELETE_ALL_GISTS_AFTER_DOWNLOAD) =>
           /\ Len(DeletesIssued) = Len(gistInfoEntries.value)
           /\ deleted = {source[k].id : k \in 1..Len(source)}
    /\ (pc = "delete" /\ DELETE_ALL_GISTS_AFTER_DOWNLOAD) =>
           Len(DeletesIssued) = i + 1

\* main has ended after deleting several gists, one delete request each.
C4_Witness ==
    /\ pc = "done"
    /\ DELETE_ALL_GISTS_AFTER_DOWNLOAD
    /\ Len(DeletesIssued) >= 2
    /\ Len(DeletesIssued) = Len(source)

\* C5: when the download directory exists as main starts, the only
\* operation the run issues is the mkdir of that directory, its completion
\* ends the run with the DestinationExists error, and neither step changes
\* the disk or the remote.
C5_DestinationExistsFailsFirst ==
    [][ (Exists(DOWNLOAD_DIRECTORY) /\ pc \in {"idle", "mkdirRoot"}) =>
            /\ disk' = disk
            /\ deleted' = deleted
            /\ pc = "idle" =>
                   (pc' = "mkdirRoot" /\ issued' = <<MkdirOp(DOWNLOAD_DIRECTORY)>>)
            /\ pc = "mkdirRoot" =>
                   (pc' = "failed" /\ err' = "DestinationExists" /\ issued' = issued
                    /\ inflight' = {}) ]_vars

\* A run has failed with DestinationExists on a download directory that
\* holds the archive of an earlier run.
C5_Witness ==
    /\ pc = "failed"
    /\ err = "DestinationExists"
    /\ issued = <<MkdirOp(DOWNLOAD_DIRECTORY)>>
    /\ Cardinality(DOMAIN disk) > 1

C7_CommentsStopTheWholeRun ==
    (ERROR_IF_GIST_FOUND_WITH_COMMENTS /\ HasCommentedGist(source)) =>
        /\ \A k \in 1..Len(issued) : IsPreflightOrFetch(issued[k])
        /\ DOMAIN disk \subseteq {DOWNLOAD_DIRECTORY}
        /\ deleted = {}
        /\ pc \notin {"mkdirEntry", "saveInfo", "mkdirContents", "fetch",
                      "writeFile", "delete", "done"}

\* The run has stopped on a commented gist that is not the first to be
\* processed: the gists before it have no comments.
C7_Witness ==
    /\ ERROR_IF_GIST_FOUND_WITH_COMMENTS
    /\ err = "UnsupportedContent"
    /\ rawGistInfoEntries.type = "array"
    /\ Len(rawGistInfoEntries.value) >= 3
    /\ rawGistInfoEntries.value[1].comments = 0
    /\ rawGistInfoEntries.value[2].comments = 0
    /\ rawGistInfoEntries.value[3].comments > 0

\* C8: the remote lists the gists newest first; getAllGists returns the
\* whole list reversed, so oldest first, and makeProcessedGistInfo keeps
\* that order with index = position: index 0 is the oldest gist, index
\* N - 1 the newest.
C8_OldestFirst ==
    LET n == Len(source)
    IN  /\ rawGistInfoEntries.type = "array" =>
               rawGistInfoEntries.value = [k \in 1..n |-> source[n + 1 - k]]
        /\ Processed =>
               /\ Len(gistInfoEntries.value) = n
               /\ \A k \in 1..n :
                      /\ gistInfoEntries.value[k].index = k - 1
                      /\ gistInfoEntries.value[k].rawGistInfo = source[n + 1 - k]
                      /\ gistInfoEntries.value[k].rawGistInfo.id
                             = CommonHash \o NumberToString(k)

\* The gists came in two pages of two and were processed.
C8_Witness ==
    /\ Processed
    /\ GISTS_PER_PAGE = 2
    /\ Len(gistInfoEntries.value) = 4
    /\ gistInfoEntries.value[1].rawGistInfo = source[4]

\* C9: every directory name that addDownloadedGistDirectoryName produces,
\* for one file or several, has at most 42 characters.
C9_NameLengthAtMost42 ==
    Processed =>
        \A k \in 1..Len(gistInfoEntries.value) :
            Len(gistInfoEntries.value[k].downloadDirectoryName) <= 42

\* A gist with one file whose name is longer than the budget got a name of
\* exactly 42 characters.
C9_Witness ==
    /\ Processed
    /\ Len(gistInfoEntries.value[1].files) = 1
    /\ Len(gistInfoEntries.value[1].files[1].filename) > 42
    /\ Len(gistInfoEntries.value[1].downloadDirectoryName) = 42

\* C10: the entries of a run have pairwise different directory names.
C10_DistinctNames ==
    Processed =>
        \A a, b \in 1..Len(gistInfoEntries.value) :
            a # b => gistInfoEntries.value[a].downloadDirectoryName
                         # gistInfoEntries.value[b].downloadDirectoryName

\* Two entries of a run have the same description, the same filename and
\* the same short hash.
C10_Witness ==
    /\ Processed
    /\ Len(gistInfoEntries.value) >= 2
    /\ LET a == gistInfoEntries.value[1]
           b == gistInfoEntries.value[2]
       IN  /\ a.rawGistInfo.description = b.rawGistInfo.description
           /\ a.files[1].filename = b.files[1].filename
           /\ Len(a.files) = Len(b.files)
           /\ shortHash(a.rawGistInfo.id) = shortHash(b.rawGistInfo.id)
           /\ a.index # b.index

\* C11: for a gist with several files the chunk of the name is the
\* hyphen-join of the longest prefix of whole description tokens that fits
\* in the budget; no token is cut, also when the first token alone is
\* longer than the budget (the chunk is then empty).
C11_WholeTokensOnly ==
    Processed =>
        \A k \in 1..Len(gistInfoEntries.value) :
            LET gistInfo == gistInfoEntries.value[k]
                name     == gistInfo.downloadDirectoryName
                padLen   == Len(paddedIndex(gistInfo.index))
                hashLen  == Len(shortHash(gistInfo.rawGistInfo.id))
                budget   == maxDirectoryNameLength - (2 + padLen + hashLen)
                chunk    == SubSeq(name, padLen + 2, Len(name) - hashLen - 1)
                tokens   == descriptionTokens(gistInfo.rawGistInfo.description)
                fits(n)  == Len(Join(SubSeq(tokens, 1, n), "-")) <= budget
                most     == CHOOSE n \in 0..Len(tokens) :
                                fits(n) /\ \A m \in (n + 1)..Len(tokens) : ~fits(m)
            IN  Len(gistInfo.files) > 1 =>
                    chunk = Join(SubSeq(tokens, 1, most), "-")

\* C12 as stated: the name starts with the index zero-padded to exactly
\* ceil(log10(GIST_PAGE_LIMIT * GISTS_PER_PAGE)) + 1 digits, 4 digits for
\* 3 * 100.
C12_CeilLog10PlusOneDigits ==
    Processed =>
        \A k \in 1..Len(gistInfoEntries.value) :
            LET gistInfo == gistInfoEntries.value[k]
                total    == GIST_PAGE_LIMIT * GISTS_PER_PAGE
                ceilLog  == CHOOSE c \in 0..total : 10^c >= total /\ (c = 0 \/ 10^(c - 1) < total)
                width    == ceilLog + 1
            IN  /\ SubSeq(gistInfo.downloadDirectoryName, 1, width + 1)
                       = PadStart(NumberToString(gistInfo.index), width, "0") \o <<"-">>
                /\ total = 300 => width = 4

\* C12, amended: the name starts with the index zero-padded to the number
\* of decimal digits of GIST_PAGE_LIMIT * GISTS_PER_PAGE, which is
\* floor(log10(GIST_PAGE_LIMIT * GISTS_PER_PAGE)) + 1: 3 digits for 3 * 100.
C12_AsManyDigitsAsTheTotal ==
    Processed =>
        \A k \in 1..Len(gistInfoEntries.value) :
            LET gistInfo == gistInfoEntries.value[k]
                total    == GIST_PAGE_LIMIT * GISTS_PER_PAGE
                width    == Len(NumberToString(total))
                zeros    == width - Len(NumberToString(gistInfo.index))
                name     == gistInfo.downloadDirectoryName
            IN  /\ zeros >= 0
                /\ \A m \in 1..zeros : name[m] = "0"
                /\ SubSeq(name, zeros + 1, width) = NumberToString(gistInfo.index)
                /\ name[width + 1] = "-"
                /\ total = 300 => width = 3

\* With 3 * 100 the index 9 was padded to 009.
C12_Witness ==
    /\ Processed
    /\ GIST_PAGE_LIMIT * GISTS_PER_PAGE = 300
    /\ gistInfoEntries.value[1].index = 9
    /\ SubSeq(gistInfoEntries.value[1].downloadDirectoryName, 1, 4)
           = <<"0", "0", "9", "-">>

\* C13: with ERROR_ON_INCOMPLETE_DOWNLOAD false, when the pages 1 to
\* GIST_PAGE_LIMIT + 1 were all non-empty getAllGists returns the list of
\* the gists it accumulated.
C13_ReturnsThePartialList ==
    (~ERROR_ON_INCOMPLETE_DOWNLOAD /\ Returned /\ page > GIST_PAGE_LIMIT + 1) =>
        /\ rawGistInfoEntries.type = "array"
        /\ Len(rawGistInfoEntries.value) = (GIST_PAGE_LIMIT + 1) * GISTS_PER_PAGE
        /\ Range(rawGistInfoEntries.value) \subseteq Range(source)

\* C14: the page requests of a run are those of the pages 1, 2, 3, ... in
\* that order, each once and at most GIST_PAGE_LIMIT + 1 of them; a page
\* is requested only when the page before it came back non-empty; and when
\* the request of a page fails nothing is issued any more: no later page,
\* and not that page again.
C14_PageRequestsInOrder ==
    [][LET before == SelectSeq(issued, IsPageRequest)
           after  == SelectSeq(issued', IsPageRequest)
       IN  /\ \A k \in 1..Len(after) : after[k] = RequestPageOp(k)
           /\ Len(after) <= GIST_PAGE_LIMIT + 1
           /\ Len(after) > Len(before) =>
                  /\ Len(after) = Len(before) + 1
                  /\ err' = "none"
                  /\ pc \in {"readToken", "requestPage"}
                  /\ pc = "requestPage" =>
                         GistsPage(GISTS_PER_PAGE, Len(before)) # <<>>
           /\ (pc = "requestPage" /\ err' = "TransportFailure") =>
                  /\ pc' = "failed"
                  /\ issued' = issued
                  /\ inflight' = {}
           /\ pc \in {"failed", "done"} => after = before \/ after = <<>>
      ]_vars

\* The request of page 2 failed: the pages 1 and 2 were requested, nothing
\* else after them, though the remote holds more gists.
C14_Witness ==
    /\ pc = "failed"
    /\ err = "TransportFailure"
    /\ SelectSeq(issued, IsPageRequest) = <<RequestPageOp(1), RequestPageOp(2)>>
    /\ issued[Len(issued)] = RequestPageOp(2)
    /\ GistsPage(GISTS_PER_PAGE, 3) # <<>>

\* C15: at most one external operation is in flight at any time, the one
\* issued last; an operation is issued only when none other is in flight
\* any more.
C15_OneOperationAtATime ==
    [][/\ Cardinality(inflight') <= 1
       /\ inflight' # {} => inflight' = {issued'[Len(issued')]}
       /\ (issued' # issued /\ issued' # <<>>) =>
              /\ Len(issued') = Len(issued) + 1
              /\ SubSeq(issued', 1, Len(issued)) = issued
              /\ inflight # {} => inflight = {issued[Len(issued)]}
              /\ inflight \cap inflight' = {}
      ]_vars

\* The second delete request is in flight, alone, every operation before
\* it having completed.
C15_Witness ==
    /\ pc = "delete"
    /\ i = 1
    /\ inflight = {DeleteOp(gistInfoEntries.value[2].rawGistInfo.id)}
    /\ Len(issued) > 8

\* C16: when an operation or the validation fails the run ends at once:
\* nothing is issued from then on (the failed operation not again either),
\* nothing stays in flight, and the disk and the remote keep what was
\* written and deleted before.
C16_FailFastNoRetryNoRollback ==
    [][/\ (err = "none" /\ err' # "none") =>
              /\ pc' = "failed"
              /\ issued' = issued
              /\ inflight' = {}
              /\ disk' = disk
              /\ deleted' = deleted
       /\ err # "none" =>
              /\ pc = "failed"
              /\ disk' = disk
              /\ deleted' = deleted
              /\ inflight' = {}
              /\ issued' = issued \/ (pc' = "idle" /\ issued' = <<>>)
      ]_vars

\* A content fetch failed after a first gist was archived: the archive of
\* that gist is still on the disk, the fetch is the last operation issued.
C16_Witness ==
    /\ pc = "failed"
    /\ err = "TransportFailure"
    /\ issued[Len(issued)][1] = "fetch"
    /\ i = 1
    /\ Archived(gistInfoEntries.value[1])

\* C17: a content fetch that fails, by throwing or by a non-success answer
\* of the content source, ends the run: every file under contents/ holds
\* the text of the file it is named after, and once a non-success answer
\* has come the run has failed, with no gist after that one written and no
\* delete request issued.
C17_FailedContentFetchEndsTheRun ==
    Processed =>
        /\ \A k \in 1..Len(gistInfoEntries.value) :
               \A m \in 1..Len(gistInfoEntries.value[k].files) :
                   LET gistInfo == gistInfoEntries.value[k]
                       file     == gistInfo.files[m]
                       path     == downloadPathToFileFromGist(gistInfo, file)
                   IN  Exists(path) =>
                           disk[path] = TextFile(<<"text of", file.filename>>)
        /\ (contents # <<>> /\ contents[1] = "404: Not Found") =>
               /\ pc = "failed"
               /\ \A k \in (i + 2)..Len(gistInfoEntries.value) :
                      ~Exists(dirName(gistInfoEntries.value[k]))
               /\ DeletesIssued = <<>>

\* C18: for a gist with one file the outcome of the naming is the same
\* whatever the description is: with any other description, null and the
\* empty one included, the naming throws the same error or gives the same
\* name.
C18_DescriptionIrrelevantForOneFile ==
    (pc \in {"named", "failed"} /\ Len(source[1].files) = 1) =>
        \A description \in NamingDescriptions :
            LET other == [source[1] EXCEPT !.description = description]
                named == addDownloadedGistDirectoryName(
                             [index |-> i, rawGistInfo |-> other,
                              files |-> tidyGistInfoEntryFiles(other),
                              downloadDirectoryName |-> <<>>])
            IN  IF pc = "named"
                THEN /\ named.error = "none"
                     /\ named.value.downloadDirectoryName
                            = gistInfoEntries.value[1].downloadDirectoryName
                ELSE named.error = err

\* C19: a run that fails after main made the download directory leaves
\* that directory on the disk; running the script again keeps the disk as
\* it is, and the run that finds the directory issues its mkdir only and
\* fails with the DestinationExists error, whatever the remote holds.
C19_FailedRunBlocksTheNextRun ==
    [][/\ (pc' = "failed" /\ Len(issued') >= 2) =>
              (IsDirOnDisk(DOWNLOAD_DIRECTORY))'
       /\ (pc = "failed" /\ IsDirOnDisk(DOWNLOAD_DIRECTORY)) =>
              /\ pc' = "idle"
              /\ issued' = <<>>
              /\ (IsDirOnDisk(DOWNLOAD_DIRECTORY))'
       /\ (pc = "idle" /\ IsDirOnDisk(DOWNLOAD_DIRECTORY)) =>
              /\ pc' = "mkdirRoot"
              /\ issued' = <<MkdirOp(DOWNLOAD_DIRECTORY)>>
              /\ (IsDirOnDisk(DOWNLOAD_DIRECTORY))'
       /\ (pc = "mkdirRoot" /\ IsDirOnDisk(DOWNLOAD_DIRECTORY)) =>
              /\ pc' = "failed"
              /\ err' = "DestinationExists"
              /\ issued' = <<MkdirOp(DOWNLOAD_DIRECTORY)>>
              /\ inflight' = {}
      ]_vars

\* The run after one that failed before it wrote anything for a gist: it
\* found the empty download directory of that run and failed with
\* DestinationExists, the remote holding gists.
C19_Witness ==
    /\ pc = "failed"
    /\ err = "DestinationExists"
    /\ issued = <<MkdirOp(DOWNLOAD_DIRECTORY)>>
    /\ DOMAIN disk = {DOWNLOAD_DIRECTORY}
    /\ Remote # <<>>

=============================================================================
